---- MODULE Spec2Model ----
(***************************************************************************)
(* A model of sync.py: the periodic one-way mirroring of a source          *)
(* directory tree onto a replica directory tree.                           *)
(*                                                                         *)
(* The filesystem is one map from absolute paths to entries; the source    *)
(* tree hangs under SourceRoot (args.source) and the replica under         *)
(* ReplicaRoot (args.replica).  Every filesystem call of the program is an *)
(* operator on that map that either returns the new map or raises, as the  *)
(* Python call does.  dirSync is unfolded into steps: one step per         *)
(* primitive the loops of dirSync apply, with the call stack of the        *)
(* recursion kept in `stack`.                                              *)
(***************************************************************************)
EXTENDS Integers, Sequences, FiniteSets, TLC

\* ------------------------------------------------------------- bounds
Names == {"a", "b"}              \* entry names of one directory level
Contents == {<<104>>, <<72>>}    \* file byte contents: "h" and "H"
MaxDepth == 2                    \* depth of the initial trees
MaxEntries == 3                  \* entries of the initial trees, both together
MaxPasses == 3                   \* passes of the run loop
MaxFaults == 1                   \* exceptions the environment raises in a run
MaxChanges == 2                  \* changes made to the source between passes

bufferSize == 65536

SourceRoot == <<"source">>
ReplicaRoot == <<"replica">>

\* The longest path the filesystem takes (PATH_MAX, in names): out of reach of
\* the trees without links, met only by a walk down a loop of links.
PathMax == MaxDepth + 3

VARIABLES
    fs,        \* the filesystem: existing absolute path -> entry
    pc,        \* main's position: "loop", "sync", "sleep", "stopped", "crashed"
    stack,     \* the dirSync invocations in progress, innermost last
    log,       \* the records handed to logging, oldest first
    passes,    \* passes started
    faults,    \* exceptions raised by the environment so far
    changes,   \* changes made to the source so far
    fs0        \* history: the filesystem when the current pass started

vars == <<fs, pc, stack, log, passes, faults, changes, fs0>>

\* --------------------------------------------------------- filesystem
\* An entry is a directory, a regular file with its bytes, or a symbolic link
\* with the absolute path it names.
DirEntry == [kind |-> "dir", data |-> <<>>, to |-> <<>>]
FileEntry(bytes) == [kind |-> "file", data |-> bytes, to |-> <<>>]
LinkEntry(target) == [kind |-> "link", data |-> <<>>, to |-> target]

Parent(p) == SubSeq(p, 1, Len(p) - 1)
BaseName(p) == p[Len(p)]
Join(p, name) == Append(p, name)
Under(p, d) == Len(p) >= Len(d) /\ SubSeq(p, 1, Len(d)) = d

\* The path p names once the symbolic links on it are followed, at most n of
\* them; <<>>, which is no entry, when there are more (a loop of links).  The
\* entries of f are kept under their own paths, below directories: a path that
\* is an entry and no link names itself.
RECURSIVE Real(_, _, _)
Real(f, p, n) ==
    IF Len(p) <= 1 THEN p
    ELSE IF p \in DOMAIN f /\ f[p].kind # "link" THEN p
    ELSE LET q == Join(Real(f, Parent(p), n), BaseName(p)) IN
         IF q \in DOMAIN f /\ f[q].kind = "link"
         THEN IF n = 0 THEN <<>> ELSE Real(f, f[q].to, n - 1)
         ELSE q

\* What stat sees (links followed to the end) and what lstat sees (the links
\* of the parent followed, the entry itself not).
realpath(f, p) == Real(f, p, Cardinality(DOMAIN f))
lpath(f, p) ==
    IF Len(p) <= 1 \/ p \in DOMAIN f THEN p
    ELSE Join(realpath(f, Parent(p)), BaseName(p))

exists(f, p) == lpath(f, p) \in DOMAIN f
is_symlink(f, p) == exists(f, p) /\ f[lpath(f, p)].kind = "link"
is_file(f, p) == LET q == realpath(f, p) IN q \in DOMAIN f /\ f[q].kind = "file"
is_dir(f, p) == LET q == realpath(f, p) IN q \in DOMAIN f /\ f[q].kind = "dir"
iterdir(f, d) ==
    LET r == realpath(f, d) IN
    {Join(d, BaseName(q)) : q \in {x \in DOMAIN f : Len(x) = Len(r) + 1 /\ Parent(x) = r}}

Without(f, gone) == [p \in DOMAIN f \ gone |-> f[p]]
With(f, p, e) == [q \in DOMAIN f \cup {p} |-> IF q = p THEN e ELSE f[q]]

\* A call's outcome: the exception class it raised ("None": it returned) and
\* the filesystem it left.
Returned(f) == [exc |-> "None", fs |-> f]
Raised(e, f) == [exc |-> e, fs |-> f]

\* What the environment does to one primitive: nothing (at = 0), or raise exc
\* in the primitive's at-th filesystem call; an rmtree so cut short has already
\* deleted the paths in done.
NoEvent == [at |-> 0, exc |-> "None", done |-> {}]

\* os.remove deletes the entry itself, a link too.
os_remove(f, p) ==
    LET l == lpath(f, p) IN
    IF l \notin DOMAIN f THEN Raised("FileNotFoundError", f)
    ELSE IF f[l].kind = "dir" THEN Raised("IsADirectoryError", f)
    ELSE Returned(Without(f, {l}))

os_mkdir(f, p) ==
    IF Len(p) > PathMax THEN Raised("OSError", f)
    ELSE IF exists(f, p) THEN Raised("FileExistsError", f)
    ELSE IF realpath(f, Parent(p)) \notin DOMAIN f THEN Raised("FileNotFoundError", f)
    ELSE IF ~is_dir(f, Parent(p)) THEN Raised("NotADirectoryError", f)
    ELSE Returned(With(f, lpath(f, p), DirEntry))

\* shutil.rmtree refuses a symbolic link; the links below p go as entries.
shutil_rmtree(f, p) ==
    LET l == lpath(f, p) IN
    IF l \notin DOMAIN f THEN Raised("FileNotFoundError", f)
    ELSE IF f[l].kind = "link" THEN Raised("OSError", f)
    ELSE IF f[l].kind # "dir" THEN Raised("NotADirectoryError", f)
    ELSE Returned(Without(f, {q \in DOMAIN f : Under(q, l)}))

\* shutil.copy2: a dst that is a directory stands for the file of src's name
\* inside it.  With follow_symlinks false a src that is a link is recreated as
\* a link at dst (os.symlink); otherwise src and dst are opened, both through
\* whatever links they are, and the bytes of src are written to dst.
shutil_copy2(f, src, dst, follow_symlinks) ==
    LET to == IF is_dir(f, dst) THEN Join(dst, BaseName(src)) ELSE dst
        rsrc == realpath(f, src)
        lto == lpath(f, to)
        rto == realpath(f, to)
    IN  IF rsrc \in DOMAIN f /\ rsrc = rto THEN Raised("SameFileError", f)
        ELSE IF ~follow_symlinks /\ is_symlink(f, src)
        THEN IF lto \in DOMAIN f THEN Raised("FileExistsError", f)
             ELSE IF ~is_dir(f, Parent(to)) THEN Raised("FileNotFoundError", f)
             ELSE Returned(With(f, lto, f[lpath(f, src)]))
        ELSE IF rsrc \notin DOMAIN f THEN Raised("FileNotFoundError", f)
        ELSE IF f[rsrc].kind = "dir" THEN Raised("IsADirectoryError", f)
        ELSE IF rto \in DOMAIN f /\ f[rto].kind = "dir" THEN Raised("IsADirectoryError", f)
        ELSE IF rto = <<>> THEN Raised("OSError", f)
        ELSE IF Parent(rto) \notin DOMAIN f THEN Raised("FileNotFoundError", f)
        ELSE IF f[Parent(rto)].kind # "dir" THEN Raised("NotADirectoryError", f)
        ELSE Returned(With(f, rto, FileEntry(f[rsrc].data)))

\* The at-th filesystem call of a primitive under the environment's event.
Call(ev, at, f, outcome) == IF ev.at = at THEN Raised(ev.exc, f) ELSE outcome

\* ------------------------------------------------------------ logging
Info(msg, path) == [level |-> "INFO", msg |-> msg, path |-> path, exc |-> "None"]
\* The error records format the exception class alone: sys.exc_info()[0].
Error(msg, e) == [level |-> "ERROR", msg |-> msg, path |-> <<>>, exc |-> e]

\* -------------------------------------------------- Content Comparator
Min(x, y) == IF x <= y THEN x ELSE y

\* The read loop of digest: chunks of bufferSize bytes are fed to the md5
\* accumulator until a read returns no data.  The accumulator is the stream it
\* has absorbed: md5 is taken to be free of collisions on Contents.
RECURSIVE ReadLoop(_, _, _)
ReadLoop(bytes, pos, md5) ==
    LET data == SubSeq(bytes, pos + 1, Min(pos + bufferSize, Len(bytes))) IN
    IF data = <<>> THEN md5 ELSE ReadLoop(bytes, pos + Len(data), md5 \o data)

\* A digest that tells files apart by their length alone.
digest_BySize(f, file) == [md5 |-> <<Len(f[realpath(f, file)].data)>>]

\* open(file, 'rb') reads the file the path leads to.
digest(f, file) == [md5 |-> ReadLoop(f[realpath(f, file)].data, 0, <<>>)]

\* fileCmp with its comparison negated.
fileCmp_Inverted(f, file1, file2) == digest(f, file1) # digest(f, file2)

fileCmp(f, file1, file2) == digest(f, file1) = digest(f, file2)

\* --------------------------------------------------- Tree Synchronizer
\* dirCmp raises (and nothing in the program catches it) when one of the two
\* paths cannot be listed.
dirCmpRaises(f, dir1, dir2) == ~is_dir(f, dir1) \/ ~is_dir(f, dir2)

\* dirCmp with the difference of removedDir taken the wrong way round.
dirCmp_RemovedSwapped(f, dir1, dir2) ==
    LET files1 == {BaseName(p) : p \in {q \in iterdir(f, dir1) : is_file(f, q)}}
        files2 == {BaseName(p) : p \in {q \in iterdir(f, dir2) : is_file(f, q)}}
        subdirs1 == {BaseName(p) : p \in {q \in iterdir(f, dir1) : is_dir(f, q)}}
        subdirs2 == {BaseName(p) : p \in {q \in iterdir(f, dir2) : is_dir(f, q)}}
    IN  [newFiles |-> files1 \ files2,
         newDirs |-> subdirs1 \ subdirs2,
         updateFiles |-> {file \in files1 : file \in files2
                            /\ ~fileCmp(f, Join(dir1, file), Join(dir2, file))},
         updateDirs |-> subdirs1 \cap subdirs2,
         removedFiles |-> files2 \ files1,
         removedDir |-> subdirs1 \ subdirs2]

dirCmp(f, dir1, dir2) ==
    LET files1 == {BaseName(p) : p \in {q \in iterdir(f, dir1) : is_file(f, q)}}
        files2 == {BaseName(p) : p \in {q \in iterdir(f, dir2) : is_file(f, q)}}
        subdirs1 == {BaseName(p) : p \in {q \in iterdir(f, dir1) : is_dir(f, q)}}
        subdirs2 == {BaseName(p) : p \in {q \in iterdir(f, dir2) : is_dir(f, q)}}
    IN  [newFiles |-> files1 \ files2,
         newDirs |-> subdirs1 \ subdirs2,
         updateFiles |-> {file \in files1 : file \in files2
                            /\ ~fileCmp(f, Join(dir1, file), Join(dir2, file))},
         updateDirs |-> subdirs1 \cap subdirs2,
         removedFiles |-> files2 \ files1,
         removedDir |-> subdirs2 \ subdirs1]

\* The primitives: each returns the filesystem and the log it leaves.
Outcome(f, lg) == [fs |-> f, log |-> lg]

copyFile(f, lg, source, target, ev) ==
    LET r == Call(ev, 1, f, shutil_copy2(f, source, target, FALSE)) IN
    IF r.exc = "None"
    THEN Outcome(r.fs, Append(lg, Info("New file created", target)))
    ELSE Outcome(r.fs, Append(lg, Error("Error creating file", r.exc)))

\* updateFile with its two paths taken for each other.
updateFile_Swapped(f, lg, source, target, ev) ==
    LET r1 == Call(ev, 1, f, os_remove(f, source))
        r2 == Call(ev, 2, r1.fs, shutil_copy2(r1.fs, target, source, TRUE))
    IN  IF r1.exc # "None"
        THEN Outcome(r1.fs, Append(lg, Error("Error updating file", r1.exc)))
        ELSE IF r2.exc # "None"
        THEN Outcome(r2.fs, Append(lg, Error("Error updating file", r2.exc)))
        ELSE Outcome(r2.fs, Append(lg, Info("File updated", target)))

updateFile(f, lg, source, target, ev) ==
    LET r1 == Call(ev, 1, f, os_remove(f, target))
        r2 == Call(ev, 2, r1.fs, shutil_copy2(r1.fs, source, target, TRUE))
    IN  IF r1.exc # "None"
        THEN Outcome(r1.fs, Append(lg, Error("Error updating file", r1.exc)))
        ELSE IF r2.exc # "None"
        THEN Outcome(r2.fs, Append(lg, Error("Error updating file", r2.exc)))
        ELSE Outcome(r2.fs, Append(lg, Info("File updated", target)))

removeFile(f, lg, target, ev) ==
    LET r == Call(ev, 1, f, os_remove(f, target)) IN
    IF r.exc = "None"
    THEN Outcome(r.fs, Append(lg, Info("File removed", target)))
    ELSE Outcome(r.fs, Append(lg, Error("Error removing file", r.exc)))

removeDir(f, lg, dir, ev) ==
    LET r == Call(ev, 1, Without(f, ev.done), shutil_rmtree(f, dir)) IN
    IF r.exc = "None"
    THEN Outcome(r.fs, Append(lg, Info("Directory removed", dir)))
    ELSE Outcome(r.fs, Append(lg, Error("Error removing directory", r.exc)))

createDir(f, lg, dir, ev) ==
    LET r == Call(ev, 1, f, os_mkdir(f, dir)) IN
    IF r.exc = "None"
    THEN Outcome(r.fs, Append(lg, Info("Directory created", dir)))
    ELSE Outcome(r.fs, Append(lg, Error("Error creating directory", r.exc)))

\* One invocation of dirSync: its arguments and what is left of the six sets
\* its loops run over.
Frame(source, target, d) ==
    [source |-> source, target |-> target,
     newFiles |-> d.newFiles, newDirs |-> d.newDirs,
     updateFiles |-> d.updateFiles, updateDirs |-> d.updateDirs,
     removedFiles |-> d.removedFiles, removedDir |-> d.removedDir]

Exhausted(fr) ==
    /\ fr.newFiles = {} /\ fr.removedFiles = {} /\ fr.updateFiles = {}
    /\ fr.newDirs = {} /\ fr.removedDir = {} /\ fr.updateDirs = {}

\* dirSync returns once its last loop has run; so does its caller, if that
\* was the last iteration of the caller's last loop.
RECURSIVE Unwind(_)
Unwind(stk) ==
    IF stk # <<>> /\ Exhausted(stk[Len(stk)])
    THEN Unwind(SubSeq(stk, 1, Len(stk) - 1))
    ELSE stk

\* The call dirSync(source, target): line 58 computes the diff, or raises.
dirSyncCall(f, stk, source, target) ==
    IF dirCmpRaises(f, source, target)
    THEN [pc |-> "crashed", stack |-> <<>>]
    ELSE [pc |-> "sync",
          stack |-> Unwind(Append(stk, Frame(source, target, dirCmp(f, source, target))))]

\* dirSync as a whole, in an environment that raises nothing: the filesystem
\* the call leaves, and whether an exception left it (dirCmp raised, at this
\* level or below).  The loops take the elements of their sets in some order.
Pick(S) == CHOOSE x \in S : TRUE
Ran(f) == [fs |-> f, raised |-> FALSE]
Aborted(f) == [fs |-> f, raised |-> TRUE]

RECURSIVE copyEach(_, _, _, _)
copyEach(f, source, target, files) ==
    IF files = {} THEN f
    ELSE LET file == Pick(files) IN
         copyEach(copyFile(f, <<>>, Join(source, file), Join(target, file), NoEvent).fs,
                  source, target, files \ {file})

RECURSIVE removeEach(_, _, _)
removeEach(f, target, files) ==
    IF files = {} THEN f
    ELSE LET file == Pick(files) IN
         removeEach(removeFile(f, <<>>, Join(target, file), NoEvent).fs,
                    target, files \ {file})

RECURSIVE updateEach(_, _, _, _)
updateEach(f, source, target, files) ==
    IF files = {} THEN f
    ELSE LET file == Pick(files) IN
         updateEach(updateFile(f, <<>>, Join(source, file), Join(target, file), NoEvent).fs,
                    source, target, files \ {file})

RECURSIVE removeDirEach(_, _, _)
removeDirEach(f, target, dirs) ==
    IF dirs = {} THEN f
    ELSE LET dir == Pick(dirs) IN
         removeDirEach(removeDir(f, <<>>, Join(target, dir), NoEvent).fs,
                       target, dirs \ {dir})

RECURSIVE dirSync(_, _, _)
RECURSIVE createEach(_, _, _, _)
RECURSIVE recurseEach(_, _, _, _)

createEach(w, source, target, dirs) ==
    IF dirs = {} \/ w.raised THEN w
    ELSE LET dir == Pick(dirs) IN
         createEach(dirSync(createDir(w.fs, <<>>, Join(target, dir), NoEvent).fs,
                            Join(source, dir), Join(target, dir)),
                    source, target, dirs \ {dir})

recurseEach(w, source, target, dirs) ==
    IF dirs = {} \/ w.raised THEN w
    ELSE LET dir == Pick(dirs) IN
         recurseEach(dirSync(w.fs, Join(source, dir), Join(target, dir)),
                     source, target, dirs \ {dir})

dirSync(f, source, target) ==
    IF dirCmpRaises(f, source, target) THEN Aborted(f)
    ELSE LET d == dirCmp(f, source, target)
             f1 == copyEach(f, source, target, d.newFiles)
             f2 == removeEach(f1, target, d.removedFiles)
             f3 == updateEach(f2, source, target, d.updateFiles)
             w4 == createEach(Ran(f3), source, target, d.newDirs)
             w5 == IF w4.raised THEN w4
                   ELSE Ran(removeDirEach(w4.fs, target, d.removedDir))
         IN  recurseEach(w5, source, target, d.updateDirs)

Top == stack[Len(stack)]
Rest == SubSeq(stack, 1, Len(stack) - 1)

\* ------------------------------------------------------- environment
InjectedExceptions == {"PermissionError", "KeyboardInterrupt"}

\* The events the environment may choose for a primitive of n filesystem calls.
Events(inject, n) ==
    {NoEvent} \cup
    IF inject /\ faults < MaxFaults
    THEN {[at |-> k, exc |-> e, done |-> {}] : k \in 1..n, e \in InjectedExceptions}
    ELSE {}

\* rmtree deletes bottom-up: what it has deleted when it is cut short is closed
\* under descendants and does not hold dir itself.
PartialRemovals(f, dir) ==
    LET l == lpath(f, dir) IN
    {D \in SUBSET {q \in DOMAIN f : Under(q, l) /\ q # l} :
        \A q \in D : \A r \in DOMAIN f : Under(r, q) => r \in D}

RmtreeEvents(inject, f, dir) ==
    {NoEvent} \cup
    IF inject /\ faults < MaxFaults
    THEN {[at |-> 1, exc |-> e, done |-> D] :
            e \in InjectedExceptions, D \in PartialRemovals(f, dir)}
    ELSE {}

Count(ev) == IF ev.at = 0 THEN faults ELSE faults + 1

\* ------------------------------------------------------------- actions
\* line 26-27: a pass starts.
StartSync ==
    /\ pc \in {"loop", "sleep"}
    /\ passes < MaxPasses
    /\ LET c == dirSyncCall(fs, <<>>, SourceRoot, ReplicaRoot) IN
        /\ pc' = c.pc
        /\ stack' = c.stack
    /\ log' = Append(log, Info("Starting sync", <<>>))
    /\ passes' = passes + 1
    /\ fs0' = fs
    /\ UNCHANGED <<fs, faults, changes>>

\* line 60-61
CopyFile(inject) ==
    /\ pc = "sync" /\ stack # <<>>
    /\ Top.newFiles # {}
    /\ \E file \in Top.newFiles, ev \in Events(inject, 1) :
        LET o == copyFile(fs, log, Join(Top.source, file), Join(Top.target, file), ev) IN
        /\ fs' = o.fs
        /\ log' = o.log
        /\ faults' = Count(ev)
        /\ stack' = Unwind(Append(Rest, [Top EXCEPT !.newFiles = @ \ {file}]))
    /\ UNCHANGED <<pc, passes, changes, fs0>>

\* line 63-64
RemoveFile(inject) ==
    /\ pc = "sync" /\ stack # <<>>
    /\ Top.newFiles = {} /\ Top.removedFiles # {}
    /\ \E file \in Top.removedFiles, ev \in Events(inject, 1) :
        LET o == removeFile(fs, log, Join(Top.target, file), ev) IN
        /\ fs' = o.fs
        /\ log' = o.log
        /\ faults' = Count(ev)
        /\ stack' = Unwind(Append(Rest, [Top EXCEPT !.removedFiles = @ \ {file}]))
    /\ UNCHANGED <<pc, passes, changes, fs0>>

\* line 66-67
UpdateFile(inject) ==
    /\ pc = "sync" /\ stack # <<>>
    /\ Top.newFiles = {} /\ Top.removedFiles = {} /\ Top.updateFiles # {}
    /\ \E file \in Top.updateFiles, ev \in Events(inject, 2) :
        LET o == updateFile(fs, log, Join(Top.source, file), Join(Top.target, file), ev) IN
        /\ fs' = o.fs
        /\ log' = o.log
        /\ faults' = Count(ev)
        /\ stack' = Unwind(Append(Rest, [Top EXCEPT !.updateFiles = @ \ {file}]))
    /\ UNCHANGED <<pc, passes, changes, fs0>>

\* line 69-70 without line 71: the directory is created and left empty.
CreateDir_NoRecursion(inject) ==
    /\ pc = "sync" /\ stack # <<>>
    /\ Top.newFiles = {} /\ Top.removedFiles = {} /\ Top.updateFiles = {}
    /\ Top.newDirs # {}
    /\ \E dir \in Top.newDirs, ev \in Events(inject, 1) :
        LET o == createDir(fs, log, Join(Top.target, dir), ev) IN
            /\ fs' = o.fs
            /\ log' = o.log
            /\ faults' = Count(ev)
            /\ stack' = Unwind(Append(Rest, [Top EXCEPT !.newDirs = @ \ {dir}]))
    /\ UNCHANGED <<pc, passes, changes, fs0>>

\* line 69-71: the directory is created, then dirSync is called on it.
CreateDir(inject) ==
    /\ pc = "sync" /\ stack # <<>>
    /\ Top.newFiles = {} /\ Top.removedFiles = {} /\ Top.updateFiles = {}
    /\ Top.newDirs # {}
    /\ \E dir \in Top.newDirs, ev \in Events(inject, 1) :
        LET o == createDir(fs, log, Join(Top.target, dir), ev)
            c == dirSyncCall(o.fs, Append(Rest, [Top EXCEPT !.newDirs = @ \ {dir}]),
                             Join(Top.source, dir), Join(Top.target, dir))
        IN  /\ fs' = o.fs
            /\ log' = o.log
            /\ faults' = Count(ev)
            /\ pc' = c.pc
            /\ stack' = c.stack
    /\ UNCHANGED <<passes, changes, fs0>>

\* line 73-74 moved before line 69-71: directories are removed while new
\* directories are still to be created.
RemoveDir_Early(inject) ==
    /\ pc = "sync" /\ stack # <<>>
    /\ Top.newFiles = {} /\ Top.removedFiles = {} /\ Top.updateFiles = {}
    /\ Top.removedDir # {}
    /\ \E dir \in Top.removedDir :
        \E ev \in RmtreeEvents(inject, fs, Join(Top.target, dir)) :
        LET o == removeDir(fs, log, Join(Top.target, dir), ev) IN
        /\ fs' = o.fs
        /\ log' = o.log
        /\ faults' = Count(ev)
        /\ stack' = Unwind(Append(Rest, [Top EXCEPT !.removedDir = @ \ {dir}]))
    /\ UNCHANGED <<pc, passes, changes, fs0>>

\* line 73-74
RemoveDir(inject) ==
    /\ pc = "sync" /\ stack # <<>>
    /\ Top.newFiles = {} /\ Top.removedFiles = {} /\ Top.updateFiles = {}
    /\ Top.newDirs = {} /\ Top.removedDir # {}
    /\ \E dir \in Top.removedDir :
        \E ev \in RmtreeEvents(inject, fs, Join(Top.target, dir)) :
        LET o == removeDir(fs, log, Join(Top.target, dir), ev) IN
        /\ fs' = o.fs
        /\ log' = o.log
        /\ faults' = Count(ev)
        /\ stack' = Unwind(Append(Rest, [Top EXCEPT !.removedDir = @ \ {dir}]))
    /\ UNCHANGED <<pc, passes, changes, fs0>>

\* line 76-77
Recurse ==
    /\ pc = "sync" /\ stack # <<>>
    /\ Top.newFiles = {} /\ Top.removedFiles = {} /\ Top.updateFiles = {}
    /\ Top.newDirs = {} /\ Top.removedDir = {} /\ Top.updateDirs # {}
    /\ \E dir \in Top.updateDirs :
        LET c == dirSyncCall(fs, Append(Rest, [Top EXCEPT !.updateDirs = @ \ {dir}]),
                             Join(Top.source, dir), Join(Top.target, dir))
        IN  /\ pc' = c.pc
            /\ stack' = c.stack
    /\ UNCHANGED <<fs, log, passes, faults, changes, fs0>>

\* line 28-29: dirSync has returned to main, which logs and sleeps.
EndSync ==
    /\ pc = "sync" /\ stack = <<>>
    /\ log' = Append(log, Info("Sync ended", <<>>))
    /\ pc' = "sleep"
    /\ UNCHANGED <<fs, stack, passes, faults, changes, fs0>>

\* line 30-31: a KeyboardInterrupt raised outside the try blocks of the
\* primitives (in the sleep, in dirCmp, in the loops' own code) reaches main.
Interrupt ==
    /\ pc \in {"loop", "sync", "sleep"}
    /\ faults < MaxFaults
    /\ faults' = faults + 1
    /\ log' = Append(log, Info("Stopping process due to keyboard interrupt", <<>>))
    /\ pc' = "stopped"
    /\ stack' = <<>>
    /\ UNCHANGED <<fs, passes, changes, fs0>>

\* The files of both directories: dirCmp hands each to fileCmp (line 89), whose
\* two digest calls open and read them.
Compared(f, dir1, dir2) ==
    {BaseName(p) : p \in {q \in iterdir(f, dir1) :
        is_file(f, q) /\ is_file(f, Join(dir2, BaseName(q)))}}

\* line 26-27 when an open or a read of digest (line 106-110) raises OSError in
\* the dirCmp of the two roots: neither digest, fileCmp, dirCmp nor dirSync has
\* a try block and main catches KeyboardInterrupt alone.
StartSyncReadFails ==
    /\ pc \in {"loop", "sleep"}
    /\ passes < MaxPasses
    /\ faults < MaxFaults
    /\ ~dirCmpRaises(fs, SourceRoot, ReplicaRoot)
    /\ Compared(fs, SourceRoot, ReplicaRoot) # {}
    /\ log' = Append(log, Info("Starting sync", <<>>))
    /\ passes' = passes + 1
    /\ faults' = faults + 1
    /\ fs0' = fs
    /\ pc' = "crashed"
    /\ stack' = <<>>
    /\ UNCHANGED <<fs, changes>>

\* line 76-77 when an open or a read of digest raises OSError in the dirCmp of
\* a directory of both trees.
RecurseReadFails ==
    /\ pc = "sync" /\ stack # <<>>
    /\ Top.newFiles = {} /\ Top.removedFiles = {} /\ Top.updateFiles = {}
    /\ Top.newDirs = {} /\ Top.removedDir = {} /\ Top.updateDirs # {}
    /\ faults < MaxFaults
    /\ \E dir \in Top.updateDirs :
        /\ ~dirCmpRaises(fs, Join(Top.source, dir), Join(Top.target, dir))
        /\ Compared(fs, Join(Top.source, dir), Join(Top.target, dir)) # {}
    /\ faults' = faults + 1
    /\ pc' = "crashed"
    /\ stack' = <<>>
    /\ UNCHANGED <<fs, log, passes, changes, fs0>>

\* The environment, between two passes: the source is written by its owner.
ModifySource ==
    /\ pc = "sleep"
    /\ changes < MaxChanges
    /\ \E p \in DOMAIN fs, bytes \in Contents :
        /\ Under(p, SourceRoot) /\ is_file(fs, p) /\ fs[p].data # bytes
        /\ fs' = With(fs, p, FileEntry(bytes))
    /\ changes' = changes + 1
    /\ UNCHANGED <<pc, stack, log, passes, faults, fs0>>

DeleteSource ==
    /\ pc = "sleep"
    /\ changes < MaxChanges
    /\ \E p \in DOMAIN fs :
        /\ Under(p, SourceRoot) /\ p # SourceRoot
        /\ fs' = Without(fs, {q \in DOMAIN fs : Under(q, p)})
    /\ changes' = changes + 1
    /\ UNCHANGED <<pc, stack, log, passes, faults, fs0>>

\* ------------------------------------------------------ initial states
Roots == {SourceRoot, ReplicaRoot}

RECURSIVE RelPaths(_)
RelPaths(n) ==
    IF n = 0 THEN {}
    ELSE LET shorter == RelPaths(n - 1) IN
         {<<x>> : x \in Names} \cup shorter
            \cup {Append(p, x) : p \in shorter, x \in Names}

AbsPaths == {root \o p : root \in Roots, p \in RelPaths(MaxDepth)}

\* The sets of at most k paths closed under parents.
RECURSIVE Shapes(_)
Shapes(k) ==
    IF k = 0 THEN {{}}
    ELSE LET prev == Shapes(k - 1) IN
         prev \cup UNION {{D \cup {p} : p \in {q \in AbsPaths \ D : Parent(q) \in D \cup Roots}}
                            : D \in prev}

\* The filesystems of shape D: a path with children is a directory, any other
\* is an empty directory or a file.
Trees(D) ==
    LET inner == {p \in D : \E q \in D : Parent(q) = p}
        leaves == D \ inner
    IN  {[p \in D \cup Roots |-> IF p \in leaves THEN lf[p] ELSE DirEntry] :
            lf \in [leaves -> {DirEntry} \cup {FileEntry(bytes) : bytes \in Contents}]}

InitialTrees == UNION {Trees(D) : D \in Shapes(MaxEntries)}

Init ==
    /\ fs \in InitialTrees
    /\ pc = "loop"
    /\ stack = <<>>
    /\ log = <<Info("Starting process", <<>>)>>
    /\ passes = 0
    /\ faults = 0
    /\ changes = 0
    /\ fs0 = fs

\* The initial trees in which one leaf is a symbolic link: to an entry of the
\* source or to nothing.  A link that names itself or a directory above itself
\* is left out (the walk down such a loop ends only at the kernel's limit of
\* links on one path).
LinkTargets == {p \in AbsPaths : Under(p, SourceRoot)}
Leaves(f) == {p \in DOMAIN f \ Roots : \A q \in DOMAIN f : Parent(q) # p}
LinkPlaces(f) ==
    {x \in Leaves(f) \X LinkTargets : ~Under(x[1], x[2])}

InitLink ==
    /\ \E f \in InitialTrees : \E x \in LinkPlaces(f) :
        fs = With(f, x[1], LinkEntry(x[2]))
    /\ pc = "loop"
    /\ stack = <<>>
    /\ log = <<Info("Starting process", <<>>)>>
    /\ passes = 0
    /\ faults = 0
    /\ changes = 0
    /\ fs0 = fs

\* ------------------------------------------------------ specifications
\* The program in an environment that raises exceptions in its primitives and
\* interrupts it.
Next ==
    \/ StartSync
    \/ CopyFile(TRUE)
    \/ RemoveFile(TRUE)
    \/ UpdateFile(TRUE)
    \/ CreateDir(TRUE)
    \/ RemoveDir(TRUE)
    \/ Recurse
    \/ EndSync
    \/ Interrupt

Spec == Init /\ [][Next]_vars

\* The program alone: no primitive fails, no interrupt.
NextQuiet ==
    \/ StartSync
    \/ CopyFile(FALSE)
    \/ RemoveFile(FALSE)
    \/ UpdateFile(FALSE)
    \/ CreateDir(FALSE)
    \/ RemoveDir(FALSE)
    \/ Recurse
    \/ EndSync

SpecQuiet == Init /\ [][NextQuiet]_vars

\* The program alone, with the source changing between its passes.
NextChange == NextQuiet \/ ModifySource \/ DeleteSource

SpecChange == Init /\ [][NextChange]_vars

\* The program in an environment whose only fault is a failed read in digest.
NextRead == NextQuiet \/ StartSyncReadFails \/ RecurseReadFails

SpecRead == Init /\ [][NextRead]_vars

\* The program alone, over trees that hold a symbolic link.
SpecLink == InitLink /\ [][NextQuiet]_vars

\* ------------------------------------------------------------- claims
Rel(p) == SubSeq(p, 2, Len(p))
InSource(rel) == SourceRoot \o rel
InReplica(rel) == ReplicaRoot \o rel

\* The relative paths of the source (of the replica) in f.
SourcePaths(f) == {Rel(p) : p \in {q \in DOMAIN f : Under(q, SourceRoot)}}
ReplicaPaths(f) == {Rel(p) : p \in {q \in DOMAIN f : Under(q, ReplicaRoot)}}

\* The replica has exactly the entries of the source, with the same contents.
Identical(f) ==
    /\ SourcePaths(f) = ReplicaPaths(f)
    /\ \A rel \in SourcePaths(f) : f[InSource(rel)] = f[InReplica(rel)]

\* The records of the current pass: those after its "Starting sync".
PassStart == CHOOSE i \in 0..Len(log) :
    /\ i > 0 => log[i].msg = "Starting sync"
    /\ \A j \in (i + 1)..Len(log) : log[j].msg # "Starting sync"
PassRecords == {i \in (PassStart + 1)..Len(log) : log[i].msg # "Sync ended"}
NoFailureInPass == \A i \in PassRecords : log[i].level # "ERROR"
NoFailureSoFar == \A i \in DOMAIN log : log[i].level # "ERROR"

\* A pass has run to its end and the process sleeps.
PassEnded == pc = "sleep"

DiffEmpty(d) ==
    /\ d.newFiles = {} /\ d.newDirs = {} /\ d.updateFiles = {}
    /\ d.updateDirs = {} /\ d.removedFiles = {} /\ d.removedDir = {}

\* The sets of dirCmp that call for a primitive (updateDirs only recurses).
NothingToApply(d) ==
    /\ d.newFiles = {} /\ d.newDirs = {} /\ d.updateFiles = {}
    /\ d.removedFiles = {} /\ d.removedDir = {}

\* C1 (as claimed): after a pass in which no primitive failed, dirCmp finds
\* nothing to apply in any directory of the source: the replica has exactly
\* the files and directories of the source, with the same contents.
C1_Convergence ==
    (PassEnded /\ NoFailureInPass) =>
        /\ Identical(fs)
        /\ \A rel \in SourcePaths(fs) : is_dir(fs, InSource(rel)) =>
            /\ ~dirCmpRaises(fs, InSource(rel), InReplica(rel))
            /\ NothingToApply(dirCmp(fs, InSource(rel), InReplica(rel)))

\* C2 (as claimed): a pass that follows a pass over the same source, no
\* primitive having failed in either, applies no primitive and leaves the
\* replica as the pass before left it.
C2_Idempotence ==
    (passes >= 2 /\ NoFailureSoFar) => (PassRecords = {} /\ fs = fs0)

\* C3: deletion completeness.  After a pass in which no primitive failed,
\* every path that was in the replica when the pass started and was not in the
\* source is absent from the replica, and so is every path below it.
C3_DeletionComplete ==
    (PassEnded /\ NoFailureInPass) =>
        \A rel \in ReplicaPaths(fs0) \ SourcePaths(fs0) :
            \A q \in DOMAIN fs : ~Under(q, InReplica(rel))

\* C3's case: a pass has gone down into a directory that both trees have and
\* has removed an entry of the replica there that the source does not have.
C3_Witness ==
    /\ PassEnded /\ NoFailureInPass
    /\ \E rel \in ReplicaPaths(fs0) \ SourcePaths(fs0) :
        /\ Len(rel) = 2
        /\ is_dir(fs0, InSource(Parent(rel)))
        /\ \E i \in PassRecords :
            log[i].path = InReplica(rel)
                /\ log[i].msg \in {"File removed", "Directory removed"}
        /\ InReplica(rel) \notin DOMAIN fs

\* The steps of a pass in which no primitive fails compose to dirSync.
StepsComposeToDirSync ==
    (PassEnded /\ NoFailureInPass /\ faults = 0) =>
        fs = dirSync(fs0, SourceRoot, ReplicaRoot).fs

\* C4 (as claimed): when one file primitive fails in a pass, the pass still
\* runs to its end and every path but that file's ends as a pass without the
\* failure leaves it.
FileErrors == {"Error creating file", "Error updating file", "Error removing file"}
ErrorsInPass == {i \in PassRecords : log[i].level = "ERROR"}
OneFileFailure ==
    /\ faults = 1
    /\ \E i \in ErrorsInPass :
        /\ log[i].msg \in FileErrors /\ log[i].exc = "PermissionError"
        /\ \A j \in ErrorsInPass : j < i => FALSE
        /\ \A j \in ErrorsInPass : j # i => log[j].msg \notin FileErrors
SameButAt(f, g, p) ==
    \A q \in (DOMAIN f \cup DOMAIN g) \ {p} :
        q \in DOMAIN f /\ q \in DOMAIN g /\ f[q] = g[q]
SameButAtOne(f, g) == \E p \in DOMAIN f \cup DOMAIN g : SameButAt(f, g, p)
C4_FaultIsolation ==
    (passes = 1 /\ pc \in {"sleep", "crashed"} /\ OneFileFailure) =>
        /\ pc = "sleep"
        /\ SameButAtOne(fs, dirSync(fs0, SourceRoot, ReplicaRoot).fs)

\* The same, for the passes that do not end in an uncaught exception.
C4_WhenNotCrashed ==
    (passes = 1 /\ pc = "sleep" /\ OneFileFailure) =>
        SameButAtOne(fs, dirSync(fs0, SourceRoot, ReplicaRoot).fs)

\* C5 (as claimed): an interrupt, whenever it is delivered, stops the process:
\* its record is informational and is the last one, and the process has stopped.
InterruptRecords ==
    {i \in DOMAIN log : \/ log[i].exc = "KeyboardInterrupt"
                        \/ log[i].msg = "Stopping process due to keyboard interrupt"}
C5_InterruptStops ==
    \A i \in InterruptRecords :
        pc = "stopped" /\ i = Len(log) /\ log[i].level = "INFO"

\* C6 (as claimed): the source is never mutated.  Every step of the program,
\* whether its primitive succeeds or fails, changes only paths under the
\* replica root.
Changed(p) ==
    \/ (p \in DOMAIN fs) # (p \in DOMAIN fs')
    \/ p \in DOMAIN fs /\ p \in DOMAIN fs' /\ fs[p] # fs'[p]
C6_SourceNeverMutated ==
    [][\A p \in DOMAIN fs \cup DOMAIN fs' : Changed(p) => Under(p, ReplicaRoot)]_vars

\* A case of C6 in trees without links, where it holds: in one pass a primitive
\* has failed and another has been applied below the root of the replica.
C6_Witness ==
    /\ PassEnded
    /\ \E i \in PassRecords : log[i].level = "ERROR"
    /\ \E i \in PassRecords : log[i].level = "INFO" /\ Len(log[i].path) >= 3
    /\ fs # fs0

\* C7 (as claimed): a step that applies a primitive emits exactly one record;
\* the record names the replica path the primitive worked on, an informational
\* record names a path the step has changed, and an error record names the
\* cause as well.
PrimitiveStep ==
    \/ CopyFile(TRUE) \/ RemoveFile(TRUE) \/ UpdateFile(TRUE)
    \/ CreateDir(TRUE) \/ RemoveDir(TRUE)
C7_LoggingContract ==
    [][PrimitiveStep =>
        /\ Len(log') = Len(log) + 1
        /\ LET r == log'[Len(log')] IN
            /\ r.path # <<>> /\ Under(r.path, ReplicaRoot)
            /\ r.level = "INFO" => Changed(r.path)
            /\ r.level = "ERROR" => r.exc # "None"]_vars

\* C8: content-only change detection.  For a file of both directories dirCmp
\* asks for an update exactly when the bytes differ; a directory of both is
\* always recursed into; and a file whose bytes are the same in source and
\* replica when a pass starts gets no primitive in that pass.
SharedDirs(f) ==
    {rel \in SourcePaths(f) : is_dir(f, InSource(rel)) /\ is_dir(f, InReplica(rel))}
C8_ContentOnly ==
    /\ \A rel \in SharedDirs(fs) :
        LET d == dirCmp(fs, InSource(rel), InReplica(rel)) IN
        \A n \in Names :
            LET s == Join(InSource(rel), n)
                r == Join(InReplica(rel), n)
            IN  /\ (is_file(fs, s) /\ is_file(fs, r)) =>
                        (n \in d.updateFiles <=> fs[s].data # fs[r].data)
                /\ (is_dir(fs, s) /\ is_dir(fs, r)) => n \in d.updateDirs
    /\ \A rel \in SourcePaths(fs0) :
        (/\ is_file(fs0, InSource(rel)) /\ is_file(fs0, InReplica(rel))
         /\ fs0[InSource(rel)].data = fs0[InReplica(rel)].data) =>
            /\ InReplica(rel) \in DOMAIN fs /\ fs[InReplica(rel)] = fs0[InReplica(rel)]
            /\ \A i \in PassRecords : log[i].path # InReplica(rel)

\* C8's case: a pass has ended that had primitives to apply and a file with
\* the same bytes on both sides to leave alone.
C8_Witness ==
    /\ PassEnded
    /\ \E i \in PassRecords : log[i].level = "INFO"
    /\ \E rel \in SourcePaths(fs0) :
        /\ is_file(fs0, InSource(rel)) /\ is_file(fs0, InReplica(rel))
        /\ fs0[InSource(rel)].data = fs0[InReplica(rel)].data

\* C9: a directory of the source that the replica lacks is created with its
\* whole subtree in one pass; and a pass gives a file of both trees the bytes
\* of the source, removes a replica file the source no longer has, and keeps a
\* directory of both trees that the source has emptied.  (fs0 holds the source
\* as the pass saw it: the source may have changed again since the pass ended.)
C9_AcrossPasses ==
    (PassEnded /\ NoFailureInPass) =>
        /\ \A rel \in SourcePaths(fs0) :
            (is_dir(fs0, InSource(rel)) /\ InReplica(rel) \notin DOMAIN fs0) =>
                \A q \in SourcePaths(fs0) : Under(q, rel) =>
                    /\ InReplica(q) \in DOMAIN fs
                    /\ fs[InReplica(q)] = fs0[InSource(q)]
        /\ \A rel \in SourcePaths(fs0) :
            (is_file(fs0, InSource(rel)) /\ is_file(fs0, InReplica(rel))) =>
                /\ InReplica(rel) \in DOMAIN fs
                /\ fs[InReplica(rel)] = fs0[InSource(rel)]
        /\ \A rel \in ReplicaPaths(fs0) \ SourcePaths(fs0) :
            is_file(fs0, InReplica(rel)) => InReplica(rel) \notin DOMAIN fs
        /\ \A rel \in SourcePaths(fs0) :
            (/\ is_dir(fs0, InSource(rel)) /\ is_dir(fs0, InReplica(rel))
             /\ iterdir(fs0, InSource(rel)) = {}) =>
                is_dir(fs, InReplica(rel)) /\ iterdir(fs, InReplica(rel)) = {}

\* C9's case, the scenario of the specification: the first pass created b and
\* b/a in the replica; then a was modified and b/a deleted in the source, and
\* the second pass updated a, removed b/a and kept b, now empty.
C9_Witness ==
    /\ PassEnded /\ passes = 2 /\ changes = 2
    /\ \E i, j \in 1..PassStart :
        /\ i < j
        /\ log[i] = Info("Directory created", InReplica(<<"b">>))
        /\ log[j] = Info("New file created", InReplica(<<"b", "a">>))
    /\ \E i, j \in PassRecords :
        /\ log[i] = Info("File updated", InReplica(<<"a">>))
        /\ log[j] = Info("File removed", InReplica(<<"b", "a">>))
    /\ is_dir(fs, InReplica(<<"b">>)) /\ iterdir(fs, InReplica(<<"b">>)) = {}
    /\ Identical(fs)

\* C10 (as claimed): the six sets of dirCmp are pairwise disjoint, and together
\* they hold every entry of the two levels but the files that are the same on
\* both sides.
Level(f, dir) == {BaseName(p) : p \in iterdir(f, dir)}
SameFile(f, dir1, dir2, n) ==
    /\ is_file(f, Join(dir1, n)) /\ is_file(f, Join(dir2, n))
    /\ f[Join(dir1, n)].data = f[Join(dir2, n)].data
Covers(f, dir1, dir2, d) ==
    d.newFiles \cup d.newDirs \cup d.updateFiles \cup d.updateDirs
        \cup d.removedFiles \cup d.removedDir
    = {n \in Level(f, dir1) \cup Level(f, dir2) : ~SameFile(f, dir1, dir2, n)}
Disjoint3(A, B, C) == A \cap B = {} /\ A \cap C = {} /\ B \cap C = {}
C11_ReadFailureIsolated ==
    faults > 0 =>
        /\ pc # "crashed"
        /\ \E i \in PassRecords : log[i].level = "ERROR"

\* C12 (as claimed): a creation of a replica directory that fails is reported
\* and does not abort the pass: the process is not ended by it.
CreateDirFailed == \E i \in PassRecords : log[i].msg = "Error creating directory"
C12_CreateFailureIsolated == CreateDirFailed => pc # "crashed"

\* C13 (as claimed): whatever updateFile does to a replica file, whether it
\* succeeds, fails at either step or is cut short, it leaves a file at the path,
\* holding the bytes it had or the bytes of the source.
C13_UpdateAtomic ==
    [][UpdateFile(TRUE) =>
        \A file \in Top.updateFiles :
            LET s == Join(Top.source, file)
                t == Join(Top.target, file)
            IN  /\ is_file(fs', t)
                /\ fs'[t].data \in {fs[t].data, fs[s].data}]_vars

\* C14 (as claimed): within a level the new files and the new directories are
\* in place before anything of the level is deleted; no file is copied onto a
\* directory and no directory is created over a file; and after a pass without
\* a failure every path that was a file on one side and a directory on the
\* other has in the replica the kind and the content it has in the source.
KindClashes(f) ==
    {rel \in SourcePaths(f) \cap ReplicaPaths(f) :
        \/ is_file(f, InSource(rel)) /\ is_dir(f, InReplica(rel))
        \/ is_dir(f, InSource(rel)) /\ is_file(f, InReplica(rel))}
Mirrored(f, rel) ==
    InReplica(rel) \in DOMAIN f /\ f[InReplica(rel)] = f[InSource(rel)]
C14_KindChange ==
    [][/\ CopyFile(FALSE) =>
            \A file \in Top.newFiles :
                LET t == Join(Top.target, file)
                    o == copyFile(fs, log, Join(Top.source, file), t, NoEvent)
                IN  (fs' = o.fs /\ log' = o.log) => ~is_dir(fs, t)
       /\ CreateDir(FALSE) =>
            \A dir \in Top.newDirs :
                LET t == Join(Top.target, dir)
                    o == createDir(fs, log, t, NoEvent)
                IN  (fs' = o.fs /\ log' = o.log) => ~is_file(fs, t)
       /\ (RemoveFile(FALSE) \/ RemoveDir(FALSE)) => Top.newDirs = {}
       /\ (EndSync /\ NoFailureInPass) =>
            \A rel \in KindClashes(fs0) : Mirrored(fs', rel)]_vars

\* C15: the order of the primitives of one dirSync invocation, read off the
\* records of a pass.  Of two records of one level (paths with the same parent)
\* the earlier is of the earlier loop: copies, file removals, updates,
\* directory creations, directory removals.  The records below a created
\* directory follow its creation with no record of another place in between.
\* And every record below a directory that both trees had when the pass started
\* comes after every record of the level of that directory.
Rank(msg) ==
    CASE msg = "New file created" -> 1
      [] msg = "File removed" -> 2
      [] msg = "File updated" -> 3
      [] msg = "Directory created" -> 4
      [] msg = "Directory removed" -> 5
PrimitiveRecords == {i \in PassRecords : log[i].path # <<>>}
Below(q, p) == Under(q, p) /\ q # p
SharedAtStart(p) == is_dir(fs0, p) /\ is_dir(fs0, InSource(Rel(p)))
C15_OrderWithinLevel ==
    \A i \in PrimitiveRecords : \A j \in PrimitiveRecords :
        LET p == log[i].path
            q == log[j].path
        IN  /\ (i < j /\ Parent(p) = Parent(q)) => Rank(log[i].msg) <= Rank(log[j].msg)
            /\ (log[i].msg = "Directory created" /\ Below(q, p)) =>
                /\ i < j
                /\ \A k \in PrimitiveRecords : (i < k /\ k < j) => Below(log[k].path, p)
            /\ (\E c \in DOMAIN fs0 :
                    SharedAtStart(c) /\ Parent(c) = Parent(p) /\ Below(q, c)) => i < j

\* C15's case: the first pass copied b, then created a and went straight into
\* it to copy a/b; the source then changed b and a/b, and the second pass
\* updated b before it went down into a, by then in both trees, to update a/b.
C15_Witness ==
    /\ PassEnded /\ passes = 2
    /\ \E i \in 1..PassStart :
        /\ log[i] = Info("New file created", InReplica(<<"b">>))
        /\ log[i + 1] = Info("Directory created", InReplica(<<"a">>))
        /\ log[i + 2] = Info("New file created", InReplica(<<"a", "b">>))
    /\ \E i \in PrimitiveRecords :
        /\ log[i] = Info("File updated", InReplica(<<"b">>))
        /\ log[i + 1] = Info("File updated", InReplica(<<"a", "b">>))

\* C16 (as claimed): every record of a primitive lies between the "Starting
\* sync" of its pass and the "Sync ended" of that pass; two passes never
\* overlap: a "Sync ended" lies between any two "Starting sync"; the process
\* sleeps only once "Sync ended" is logged; and a pass that has started and has
\* not ended is still running or was interrupted, so that its "Sync ended"
\* follows unless the process is interrupted.
Starts == {i \in DOMAIN log : log[i].msg = "Starting sync"}
Ends == {i \in DOMAIN log : log[i].msg = "Sync ended"}
OfPrimitive(i) == log[i].path # <<>> \/ log[i].level = "ERROR"
PassOpen == Starts # {} /\ \A e \in Ends : \E s \in Starts : s > e
C16_PassSequencing ==
    /\ \A i \in DOMAIN log : OfPrimitive(i) =>
        \E s \in Starts : s < i /\ \A e \in Ends : ~(s < e /\ e < i)
    /\ \A s1 \in Starts : \A s2 \in Starts :
        s1 < s2 => \E e \in Ends : s1 < e /\ e < s2
    /\ pc = "sleep" => log[Len(log)].msg = "Sync ended"
    /\ PassOpen => pc \in {"sync", "stopped"}

\* The same without its last part: the brackets and the sleep.
C16_Brackets ==
    /\ \A i \in DOMAIN log : OfPrimitive(i) =>
        \E s \in Starts : s < i /\ \A e \in Ends : ~(s < e /\ e < i)
    /\ \A s1 \in Starts : \A s2 \in Starts :
        s1 < s2 => \E e \in Ends : s1 < e /\ e < s2
    /\ pc = "sleep" => log[Len(log)].msg = "Sync ended"

\* C17 (as claimed): a symbolic link of the source is an entry of its own kind
\* and is never followed.  In a pass without a failure no primitive is applied
\* below the replica path of a link (a link to a directory is not recursed
\* into); a link whose path the replica lacks, in a directory both trees have,
\* is brought to the replica; and whenever a copy or an update brings the link
\* to the replica, the replica path then holds the link, not what it names.
LinksOfSource(f) == {rel \in SourcePaths(f) : f[InSource(rel)].kind = "link"}
Brought(rel) ==
    \E i \in PassRecords :
        /\ log[i].path = InReplica(rel)
        /\ log[i].msg \in {"New file created", "File updated", "Directory created"}
HoldsLink(rel) ==
    InReplica(rel) \in DOMAIN fs /\ fs[InReplica(rel)] = fs0[InSource(rel)]
C17_LinksOpaque ==
    (PassEnded /\ NoFailureInPass) =>
        \A rel \in LinksOfSource(fs0) :
            /\ \A i \in PassRecords : ~Below(log[i].path, InReplica(rel))
            /\ (InReplica(rel) \notin DOMAIN fs0 /\ Parent(rel) \in SharedDirs(fs0))
                    => HoldsLink(rel)
            /\ Brought(rel) => HoldsLink(rel)

\* The parts of C17, one by one.
C17_NotRecursed ==
    (PassEnded /\ NoFailureInPass) =>
        \A rel \in LinksOfSource(fs0) :
            \A i \in PassRecords : ~Below(log[i].path, InReplica(rel))
C17_NewLinkCopied ==
    (PassEnded /\ NoFailureInPass) =>
        \A rel \in LinksOfSource(fs0) :
            (InReplica(rel) \notin DOMAIN fs0 /\ Parent(rel) \in SharedDirs(fs0))
                => HoldsLink(rel)
C17_BroughtAsLink ==
    (PassEnded /\ NoFailureInPass) =>
        \A rel \in LinksOfSource(fs0) : Brought(rel) => HoldsLink(rel)

\* C18: self-healing.  When the source and the replica had no path that was a
\* file in one and a directory in the other at the start of a pass, then
\* wherever that pass stands or was cut short, whatever primitives failed in it
\* (an update that removed and did not copy, a removal of a directory that
\* deleted a part of it), one call dirSync(S, R) in which nothing fails runs to
\* its end and leaves the replica identical to the source.
C18_SelfHealing ==
    KindClashes(fs0) = {} =>
        LET w == dirSync(fs, SourceRoot, ReplicaRoot) IN
        ~w.raised /\ Identical(w.fs)

\* C18's case: in the first pass an update removed the replica file and failed
\* to copy; the second pass, in which nothing failed, copied the file as a new
\* one and left the replica identical to the source.
C18_Witness ==
    /\ passes = 2 /\ PassEnded /\ NoFailureInPass
    /\ KindClashes(fs0) = {}
    /\ \E i \in 1..PassStart : log[i].msg = "Error updating file"
    /\ \E rel \in SourcePaths(fs0) :
        /\ is_file(fs0, InSource(rel)) /\ InReplica(rel) \notin DOMAIN fs0
        /\ \E i \in PassRecords : log[i] = Info("New file created", InReplica(rel))
    /\ ~Identical(fs0) /\ Identical(fs)
    /\ fs = dirSync(fs0, SourceRoot, ReplicaRoot).fs

\* C19: two-pass convergence.  From any source and any replica of regular files
\* and directories, kind clashes included, the second of two passes in which
\* nothing failed leaves the replica identical to the source, and a third pass
\* applies no primitive and changes nothing.
C19_TwoPassConvergence ==
    /\ (passes >= 2 /\ PassEnded /\ NoFailureSoFar) => Identical(fs)
    /\ (passes >= 3 /\ NoFailureSoFar) => (PassRecords = {} /\ fs = fs0)

\* C19's case: the first pass copied a file onto a directory of the replica and
\* removed the directory with the copy in it; the second copied the file again;
\* the third found nothing to do.
C19_Witness ==
    /\ passes = 3 /\ PassEnded /\ NoFailureSoFar
    /\ \E i, j, k \in DOMAIN log :
        /\ i < j /\ j < k /\ k < PassStart
        /\ log[i].msg = "New file created"
        /\ log[j] = Info("Directory removed", log[i].path)
        /\ log[k] = log[i]
        /\ \E e \in Ends : j < e /\ e < k
    /\ PassRecords = {}
    /\ Identical(fs)

====
